---------------------------- MODULE Spec2Model ----------------------------
(***************************************************************************)
(* A model of the TinyInfiniTensor core: the arena allocator               *)
(* (src/src/core/allocator.cc) and the graph engine                        *)
(* (src/src/core/graph.cc).                                                *)
(***************************************************************************)
EXTENDS Integers, Sequences, FiniteSets, Bags, TLC

(***************************************************************************)
(* Bounds of the model.                                                    *)
(***************************************************************************)
\* number of alloc/free calls explored in planning mode
MaxCalls == 7
\* number of alloc/free calls of positive size explored in planning mode
MaxLongCalls == 9
\* number of alloc/free/getPtr calls explored around the commit
MaxCommitCalls == 5
\* number of distinct handles the memory backend may hand out
MaxHandle == 2
\* number of objects (operators and tensors) created in one behaviour of
\* the graph
MaxObjects == 7
\* number of objects created in one behaviour that connects an operator
\* twice
MaxConnectObjects == 5
\* number of objects created in one behaviour that sorts the graph
MaxSortObjects == 6
\* number of objects created in one behaviour that plans the memory of
\* the graph
MaxMallocObjects == 5
\* number of objects created in one behaviour that infers the shapes of
\* the graph
MaxInferObjects == 5
\* number of objects created in one behaviour that sorts and rewrites the
\* graph
MaxFlagObjects == 6
\* number of operators of the graphs whose sort orders are compared
MaxChainOps == 4
\* number of objects created, and of operators made and tensors added to
\* the list, in one behaviour that checks the graph
MaxValidObjects == 4
MaxMatmulRank == 3
\* getAlignedSize is called on the sizes whose lowest 16 bits are at most
\* this far from 0 or from 2^16 - 1, each other 16-bit part all zeros or
\* all ones
MaxAlignOffset == 17

(***************************************************************************)
(* size_t arithmetic.  A size_t is 64 bits wide; it is held as four 16-bit *)
(* limbs, least significant first, so that the wrap-around of              *)
(* getAlignedSize is computed exactly.                                     *)
(***************************************************************************)
Limb == 2 ^ 16

U64(n) == << n % Limb, (n \div Limb) % Limb, 0, 0 >>

FromU64(x) == x[1] + x[2] * Limb

RECURSIVE U64Dec(_, _)
\* x - 1 in size_t arithmetic, borrowing from limb i upwards
U64Dec(x, i) ==
    IF i > 4 THEN x
    ELSE IF x[i] > 0 THEN [x EXCEPT ![i] = @ - 1]
    ELSE U64Dec([x EXCEPT ![i] = Limb - 1], i + 1)

RECURSIVE U64Inc(_, _)
\* x + 1 in size_t arithmetic, carrying from limb i upwards
U64Inc(x, i) ==
    IF i > 4 THEN x
    ELSE IF x[i] < Limb - 1 THEN [x EXCEPT ![i] = @ + 1]
    ELSE U64Inc([x EXCEPT ![i] = 0], i + 1)

RECURSIVE U64DivStep(_, _, _, _)
U64DivStep(x, d, i, rem) ==
    IF i < 1 THEN x
    ELSE LET cur == rem * Limb + x[i]
         IN  U64DivStep([x EXCEPT ![i] = cur \div d], d, i - 1, cur % d)

\* x / d in size_t arithmetic, for a small divisor d
U64Div(x, d) == U64DivStep(x, d, 4, 0)

RECURSIVE U64MulStep(_, _, _, _)
U64MulStep(x, m, i, carry) ==
    IF i > 4 THEN x
    ELSE LET cur == x[i] * m + carry
         IN  U64MulStep([x EXCEPT ![i] = cur % Limb], m, i + 1, cur \div Limb)

\* x * m in size_t arithmetic (the carry out of the top limb is lost)
U64Mul(x, m) == U64MulStep(x, m, 1, 0)

\* Allocator::alignment = sizeof(uint64_t)
alignment == 8

\* ((size - 1) / alignment + 1) * alignment on size_t
getAlignedSizeU64(x) ==
    U64Mul(U64Inc(U64Div(U64Dec(x, 1), alignment), 1), alignment)

getAlignedSize(size) == FromU64(getAlignedSizeU64(U64(size)))

(***************************************************************************)
(* State.                                                                  *)
(***************************************************************************)
VARIABLES
    used,          \* Allocator::used
    peak,          \* Allocator::peak
    ptr,           \* Allocator::ptr, NULL before the commit
    freeBlocks,    \* Allocator::freeBlocks, std::map offset -> size
    live,          \* history: bag of <<addr, size>> handed out and not yet freed
    maxUsed,       \* history: the largest value used has taken
    highWater,     \* history: the largest end offset handed out
    backendCalls,  \* history: number of runtime->alloc calls
    backendBytes,  \* history: byte size of the last runtime->alloc call
    calls,         \* number of calls made so far
    pre,           \* the allocator's fields before the last call
    last           \* the last call: operation, arguments, result

VARIABLES
    ops,           \* GraphObj::ops, the operator list (operator identities)
    tensors,       \* GraphObj::tensors, the tensor list (tensor identities)
    sorted,        \* GraphObj::sorted
    opObj,         \* the OperatorObj objects created so far, by identity
    tensorObj,     \* the TensorObj objects created so far, by identity
    gpre,          \* history: the graph before the last call on it
    glast          \* history: the last call on the graph and its result

avars == << used, peak, ptr, freeBlocks, live, maxUsed, highWater,
            backendCalls, backendBytes, calls, pre, last >>

gvars == << ops, tensors, sorted, opObj, tensorObj, gpre, glast >>

vars == << avars, gvars >>

NULL == 0

Handles == 1 .. MaxHandle

\* request sizes: zero, one that is not a multiple of the alignment, and
\* one that is
Sizes == {0, alignment - 3, 2 * alignment}

Max(a, b) == IF a >= b THEN a ELSE b

EmptyMap == [o \in {} |-> 0]

\* std::map::erase(key)
Erase(fb, o) == [k \in DOMAIN fb \ {o} |-> fb[k]]

\* std::map::operator[](key) = value
Put(fb, o, s) == [k \in DOMAIN fb \cup {o} |-> IF k = o THEN s ELSE fb[k]]

(***************************************************************************)
(* Allocator::alloc                                                        *)
(***************************************************************************)
\* the assertion IT_ASSERT(this->ptr == nullptr)
PlanningModeMutant(p) == TRUE

PlanningMode(p) == p = NULL

\* the blocks the scan of freeBlocks accepts: block_size >= size
Fits(fb, size) == { o \in DOMAIN fb : fb[o] >= size }

FirstFitMutant(fb, size) ==
    CHOOSE o \in Fits(fb, size) : \A q \in Fits(fb, size) : q <= o

\* the first such block in the map's ascending key order
FirstFit(fb, size) ==
    CHOOSE o \in Fits(fb, size) : \A q \in Fits(fb, size) : o <= q

\* erase the block; put back what remains of it behind the allocation
TakeBlock(fb, o, size) ==
    LET block_size == fb[o]
        remaining_size == block_size - size
        erased == Erase(fb, o)
    IN  IF remaining_size > 0
        THEN Put(erased, o + size, remaining_size)
        ELSE erased

allocBodyMutant(a, size) ==
    IF Fits(a.freeBlocks, size) # {}
    THEN LET o == FirstFit(a.freeBlocks, size)
         IN  [ret |-> o,
              used |-> a.used + size,
              peak |-> Max(a.peak, a.used + size),
              freeBlocks |-> TakeBlock(a.freeBlocks, o, size)]
    ELSE [ret |-> a.used,
          used |-> a.used + size,
          peak |-> a.peak,
          freeBlocks |-> a.freeBlocks]

\* the body of alloc after the assertion; size is already aligned
allocBody(a, size) ==
    IF Fits(a.freeBlocks, size) # {}
    THEN LET o == FirstFit(a.freeBlocks, size)
         IN  [ret |-> o,
              used |-> a.used + size,
              peak |-> Max(a.peak, a.used + size),
              freeBlocks |-> TakeBlock(a.freeBlocks, o, size)]
    ELSE [ret |-> a.used,
          used |-> a.used + size,
          peak |-> Max(a.peak, a.used + size),
          freeBlocks |-> a.freeBlocks]

(***************************************************************************)
(* Allocator::free                                                         *)
(***************************************************************************)
\* 3.1: merge with the block that starts at addr + size
MergeNext(fb, addr, size) ==
    IF (addr + size) \in DOMAIN fb
    THEN LET merged == size + fb[addr + size]
         IN  [freeBlocks |-> Put(Erase(fb, addr + size), addr, merged),
              size |-> merged]
    ELSE [freeBlocks |-> fb, size |-> size]

\* the blocks the backward scan accepts: it->first + it->second == addr
EndsAt(fb, addr) == { o \in DOMAIN fb : o + fb[o] = addr }

\* 3.2: merge with the first block (ascending) that ends at addr
MergePrev(fb, addr, size) ==
    IF EndsAt(fb, addr) # {}
    THEN LET it == CHOOSE o \in EndsAt(fb, addr) :
                       \A q \in EndsAt(fb, addr) : o <= q
             merged_size == fb[it] + size
         IN  Put(Erase(Erase(fb, it), addr), it, merged_size)
    ELSE fb

freeUsedMutant(u, size) == u

\* used -= size
freeUsed(u, size) == u - size

\* the body of free after the assertion; size is already aligned
freeBody(a, addr, size) ==
    LET inserted == Put(a.freeBlocks, addr, size)
        next == MergeNext(inserted, addr, size)
    IN  [used |-> freeUsed(a.used, size),
         freeBlocks |-> MergePrev(next.freeBlocks, addr, next.size)]

(***************************************************************************)
(* Actions of the allocator.                                               *)
(***************************************************************************)
Fields == [used |-> used, peak |-> peak, ptr |-> ptr,
           freeBlocks |-> freeBlocks, highWater |-> highWater]

AInit ==
    /\ used = 0
    /\ peak = 0
    /\ ptr = NULL
    /\ freeBlocks = EmptyMap
    /\ live = EmptyBag
    /\ maxUsed = 0
    /\ highWater = 0
    /\ backendCalls = 0
    /\ backendBytes = 0
    /\ calls = 0
    /\ pre = [used |-> 0, peak |-> 0, ptr |-> NULL,
              freeBlocks |-> EmptyMap, highWater |-> 0]
    /\ last = [op |-> "none", size |-> 0, addr |-> 0, ret |-> 0,
               fault |-> FALSE]

\* size_t Allocator::alloc(size_t size)
Alloc(size) ==
    /\ calls' = calls + 1
    /\ pre' = Fields
    /\ IF PlanningMode(ptr)
       THEN LET r == allocBody(Fields, getAlignedSize(size))
            IN  /\ used' = r.used
                /\ peak' = r.peak
                /\ freeBlocks' = r.freeBlocks
                /\ live' = live (+) SetToBag({<< r.ret, size >>})
                /\ maxUsed' = Max(maxUsed, r.used)
                /\ highWater' = Max(highWater, r.ret + getAlignedSize(size))
                /\ last' = [op |-> "alloc", size |-> size, addr |-> 0,
                            ret |-> r.ret, fault |-> FALSE]
       ELSE /\ last' = [op |-> "alloc", size |-> size, addr |-> 0,
                        ret |-> 0, fault |-> TRUE]
            /\ UNCHANGED << used, peak, freeBlocks, live, maxUsed, highWater >>
    /\ UNCHANGED << ptr, backendCalls, backendBytes >>
    /\ UNCHANGED gvars

\* void Allocator::free(size_t addr, size_t size), of a live allocation
Free(addr, size) ==
    /\ << addr, size >> \in BagToSet(live)
    /\ calls' = calls + 1
    /\ pre' = Fields
    /\ IF PlanningMode(ptr)
       THEN LET r == freeBody(Fields, addr, getAlignedSize(size))
            IN  /\ used' = r.used
                /\ freeBlocks' = r.freeBlocks
                /\ live' = live (-) SetToBag({<< addr, size >>})
                /\ last' = [op |-> "free", size |-> size, addr |-> addr,
                            ret |-> 0, fault |-> FALSE]
                /\ UNCHANGED << peak, maxUsed, highWater >>
       ELSE /\ last' = [op |-> "free", size |-> size, addr |-> addr,
                        ret |-> 0, fault |-> TRUE]
            /\ UNCHANGED << used, peak, freeBlocks, live, maxUsed, highWater >>
    /\ UNCHANGED << ptr, backendCalls, backendBytes >>
    /\ UNCHANGED gvars

getPtrCommitsMutant(p) == TRUE

\* if (this->ptr == nullptr)
getPtrCommits(p) == p = NULL

\* void *Allocator::getPtr(); h is the handle runtime->alloc returns
GetPtr(h) ==
    /\ calls' = calls + 1
    /\ pre' = Fields
    /\ IF getPtrCommits(ptr)
       THEN /\ ptr' = h
            /\ backendCalls' = backendCalls + 1
            /\ backendBytes' = peak
       ELSE UNCHANGED << ptr, backendCalls, backendBytes >>
    /\ last' = [op |-> "getPtr", size |-> 0, addr |-> 0, ret |-> ptr',
                fault |-> FALSE]
    /\ UNCHANGED << used, peak, freeBlocks, live, maxUsed, highWater >>
    /\ UNCHANGED gvars

\* the calls of the planning phase
PosSizes == { s \in Sizes : s > 0 }

\* the planning phase with requests of positive size, explored deeper
LongNext ==
    \/ \E size \in PosSizes : calls < MaxLongCalls /\ Alloc(size)
    \/ \E e \in BagToSet(live) : calls < MaxLongCalls /\ Free(e[1], e[2])

PlanNext ==
    \/ \E size \in Sizes : calls < MaxCalls /\ Alloc(size)
    \/ \E e \in BagToSet(live) : calls < MaxCalls /\ Free(e[1], e[2])

\* every call of the allocator, around the commit
CommitNext ==
    \/ \E size \in Sizes : calls < MaxCommitCalls /\ Alloc(size)
    \/ \E e \in BagToSet(live) : calls < MaxCommitCalls /\ Free(e[1], e[2])
    \/ \E h \in Handles : calls < MaxCommitCalls /\ GetPtr(h)

(***************************************************************************)
(* The graph.  Operators and tensors are objects with an identity; the     *)
(* graph's lists hold identities.  Tensor::targets and the operator's      *)
(* predecessors/successors are sets of identities.                         *)
(***************************************************************************)
\* a null Operator reference (a tensor without source)
NoOperator == 0

\* tensor shapes: a cube, so that the transposes and the products of the
\* tensors of the graph have the shape of every tensor of the graph
Shapes == { << 2, 2, 2 >> }

\* permutations a Transpose may carry (axes counted from 0)
Permutes == { << 0, 2, 1 >>, << 1, 2, 0 >>, << 2, 0, 1 >> }

Range(s) == { s[i] : i \in DOMAIN s }

\* std::find followed by erase: the first occurrence of x leaves the list
RemoveFirst(s, x) ==
    IF x \notin Range(s) THEN s
    ELSE LET k == CHOOSE i \in DOMAIN s :
                      s[i] = x /\ \A j \in 1 .. (i - 1) : s[j] # x
         IN  SubSeq(s, 1, k - 1) \o SubSeq(s, k + 1, Len(s))

\* the graph as one value: lists, flag and the objects
Graph == [ops |-> ops, tensors |-> tensors, sorted |-> sorted,
          op |-> opObj, ten |-> tensorObj]

\* TensorObj::addTarget
addTarget(G, t, o) == [G EXCEPT !.ten[t].targets = @ \cup {o}]

\* TensorObj::removeTarget
removeTarget(G, t, o) == [G EXCEPT !.ten[t].targets = @ \ {o}]

\* TensorObj::setSource
setSource(G, t, o) == [G EXCEPT !.ten[t].source = o]

\* OperatorObj::addPredecessors
addPredecessors(G, o, p) == [G EXCEPT !.op[o].preds = @ \cup {p}]

\* OperatorObj::removePredecessors
removePredecessors(G, o, p) == [G EXCEPT !.op[o].preds = @ \ {p}]

\* OperatorObj::addSuccessors
addSuccessors(G, o, p) == [G EXCEPT !.op[o].succs = @ \cup {p}]

\* OperatorObj::removeSuccessors
removeSuccessors(G, o, p) == [G EXCEPT !.op[o].succs = @ \ {p}]

\* OperatorObj::replaceInput
replaceInput(G, o, t1, t2) ==
    [G EXCEPT !.op[o].inputs =
        [i \in DOMAIN @ |-> IF @[i] = t1 THEN t2 ELSE @[i]]]

\* GraphObj::removeOperator
removeOperator(G, o) == [G EXCEPT !.ops = RemoveFirst(@, o)]

\* GraphObj::removeTensor
removeTensor(G, t) == [G EXCEPT !.tensors = RemoveFirst(@, t)]

(***************************************************************************)
(* GraphObj::addOperatorAndConnect                                         *)
(***************************************************************************)
\* the body of the loop over the inputs
connectInput(G, o, input) ==
    LET g1 == addTarget(G, input, o)
        pred == g1.ten[input].source
    IN  IF pred # NoOperator
        THEN addPredecessors(addSuccessors(g1, pred, o), o, pred)
        ELSE g1

RECURSIVE connectInputs(_, _, _)
connectInputs(G, o, ins) ==
    IF ins = << >> THEN G
    ELSE connectInputs(connectInput(G, o, Head(ins)), o, Tail(ins))

RECURSIVE linkTargets(_, _, _)
\* the loop over the targets of one output
linkTargets(G, o, succs) ==
    IF succs = {} THEN G
    ELSE LET succ == CHOOSE x \in succs : TRUE
         IN  linkTargets(addSuccessors(addPredecessors(G, succ, o), o, succ),
                         o, succs \ {succ})

RECURSIVE connectOutputsMutant(_, _, _)
connectOutputsMutant(G, o, outs) ==
    IF outs = << >> THEN G
    ELSE connectOutputsMutant(setSource(G, Head(outs), o), o, Tail(outs))

RECURSIVE connectOutputs(_, _, _)
connectOutputs(G, o, outs) ==
    IF outs = << >> THEN G
    ELSE LET output == Head(outs)
             g1 == setSource(G, output, o)
         IN  connectOutputs(linkTargets(g1, o, g1.ten[output].targets),
                            o, Tail(outs))

addOperatorAndConnectMutant(G, o) ==
    LET g0 == [G EXCEPT !.ops = Append(@, o)]
        g1 == connectInputs(g0, o, g0.op[o].inputs)
    IN  connectOutputs(g1, o, g1.op[o].outputs)

addOperatorAndConnect(G, o) ==
    LET g0 == [G EXCEPT !.sorted = FALSE, !.ops = Append(@, o)]
        g1 == connectInputs(g0, o, g0.op[o].inputs)
    IN  connectOutputs(g1, o, g1.op[o].outputs)

(***************************************************************************)
(* GraphObj::topo_sort                                                     *)
(***************************************************************************)
readyMutant(G, o, flags) ==
    o \notin flags

\* the test of the inner loop: op is not placed yet and the producer of
\* each of its inputs is absent or placed
ready(G, o, flags) ==
    /\ o \notin flags
    /\ \A i \in DOMAIN G.op[o].inputs :
           LET producer == G.ten[G.op[o].inputs[i]].source
           IN  producer = NoOperator \/ producer \in flags

RECURSIVE topoPassMutant(_, _, _, _, _)
topoPassMutant(G, i, sortedOps, flags, modified) ==
    IF i > Len(G.ops)
    THEN [sorted |-> sortedOps, flags |-> Range(sortedOps),
          modified |-> modified]
    ELSE IF ready(G, G.ops[i], flags)
         THEN topoPassMutant(G, i + 1, Append(sortedOps, G.ops[i]),
                             flags, TRUE)
         ELSE topoPassMutant(G, i + 1, sortedOps, flags, modified)

RECURSIVE topoPass(_, _, _, _, _)
\* one pass of the for loop over ops, from position i
topoPass(G, i, sortedOps, flags, modified) ==
    IF i > Len(G.ops)
    THEN [sorted |-> sortedOps, flags |-> flags, modified |-> modified]
    ELSE IF ready(G, G.ops[i], flags)
         THEN topoPass(G, i + 1, Append(sortedOps, G.ops[i]),
                       flags \cup {G.ops[i]}, TRUE)
         ELSE topoPass(G, i + 1, sortedOps, flags, modified)

topoFailMutant(G, sortedOps) ==
    [g |-> [G EXCEPT !.ops = sortedOps], ret |-> FALSE]

\* a pass without progress: return false
topoFail(G, sortedOps) ==
    [g |-> G, ret |-> FALSE]

RECURSIVE topoLoopMutant(_, _, _)
topoLoopMutant(G, sortedOps, flags) ==
    IF Len(sortedOps) <= Len(G.ops)
    THEN LET r == topoPass(G, 1, sortedOps, flags, FALSE)
         IN  IF ~r.modified THEN topoFail(G, r.sorted)
             ELSE topoLoopMutant(G, r.sorted, r.flags)
    ELSE [g |-> [G EXCEPT !.ops = sortedOps, !.sorted = TRUE], ret |-> TRUE]

RECURSIVE topoLoop(_, _, _)
\* while (sorted.size() < ops.size())
topoLoop(G, sortedOps, flags) ==
    IF Len(sortedOps) < Len(G.ops)
    THEN LET r == topoPass(G, 1, sortedOps, flags, FALSE)
         IN  IF ~r.modified THEN topoFail(G, r.sorted)
             ELSE topoLoop(G, r.sorted, r.flags)
    ELSE [g |-> [G EXCEPT !.ops = sortedOps, !.sorted = TRUE], ret |-> TRUE]

topo_sort(G) ==
    IF G.sorted THEN [g |-> G, ret |-> TRUE]
    ELSE topoLoop(G, << >>, {})

(***************************************************************************)
(* GraphObj::optimize                                                      *)
(***************************************************************************)
\* p2[p1[i]] == i for all i
isInversePermutation(p1, p2) ==
    /\ Len(p1) = Len(p2)
    /\ \A i \in 1 .. Len(p1) : p2[p1[i] + 1] = i - 1

\* identity on the leading axes, the last two exchanged
isLastTwoDimsSwap(permute, rank) ==
    /\ Len(permute) = rank
    /\ \A i \in 0 .. (rank - 3) : permute[i + 1] = i
    /\ permute[rank - 1] = rank - 1
    /\ permute[rank] = rank - 2

\* the tests of rule 1 on ops[i] = op1, up to the inverse-permutation test
pairMatches(G, op1) ==
    /\ G.op[op1].type = "Transpose"
    /\ LET middleTensor == G.op[op1].outputs[1]
           targets == G.ten[middleTensor].targets
       IN  /\ Cardinality(targets) = 1
           /\ LET op2 == CHOOSE x \in targets : TRUE
              IN  /\ G.op[op2].type = "Transpose"
                  /\ isInversePermutation(G.op[op1].permute,
                                          G.op[op2].permute)

relinkSuccessorMutant(G, succ, op2, inputTensor, outputTensor, inputSource) ==
    LET g1 == replaceInput(G, succ, outputTensor, inputTensor)
        g3 == removePredecessors(g1, succ, op2)
    IN  IF inputSource # NoOperator
        THEN addPredecessors(addSuccessors(g3, inputSource, succ),
                             succ, inputSource)
        ELSE g3

\* the body of the loop over the successors of the pair's output
relinkSuccessor(G, succ, op2, inputTensor, outputTensor, inputSource) ==
    LET g1 == replaceInput(G, succ, outputTensor, inputTensor)
        g2 == addTarget(g1, inputTensor, succ)
        g3 == removePredecessors(g2, succ, op2)
    IN  IF inputSource # NoOperator
        THEN addPredecessors(addSuccessors(g3, inputSource, succ),
                             succ, inputSource)
        ELSE g3

RECURSIVE relinkSuccessors(_, _, _, _, _, _)
relinkSuccessors(G, successors, op2, inputTensor, outputTensor, inputSource) ==
    IF successors = {} THEN G
    ELSE LET succ == CHOOSE x \in successors : TRUE
         IN  relinkSuccessors(
                 relinkSuccessor(G, succ, op2, inputTensor, outputTensor,
                                 inputSource),
                 successors \ {succ}, op2, inputTensor, outputTensor,
                 inputSource)

\* rule 1 applied to the pair that starts at op1
removePair(G, op1) ==
    LET middleTensor == G.op[op1].outputs[1]
        op2 == CHOOSE x \in G.ten[middleTensor].targets : TRUE
        inputTensor == G.op[op1].inputs[1]
        outputTensor == G.op[op2].outputs[1]
        inputSource == G.ten[inputTensor].source
        successors == G.ten[outputTensor].targets
        g1 == relinkSuccessors(G, successors, op2, inputTensor, outputTensor,
                               inputSource)
        g2 == IF inputSource # NoOperator
              THEN removeSuccessors(g1, inputSource, op1)
              ELSE g1
        g3 == removeSuccessors(g2, op1, op2)
        g4 == removePredecessors(g3, op2, op1)
        g5 == removeTarget(g4, inputTensor, op1)
        g6 == removeOperator(removeOperator(g5, op1), op2)
    IN  removeTensor(removeTensor(g6, middleTensor), outputTensor)

RECURSIVE removeRedundantTransposePairs(_, _, _)
\* the while loop of rule 1 from position i (counted from 1)
removeRedundantTransposePairs(G, i, changed) ==
    IF i > Len(G.ops) THEN [g |-> G, changed |-> changed]
    ELSE IF pairMatches(G, G.ops[i])
         THEN removeRedundantTransposePairs(removePair(G, G.ops[i]), i, TRUE)
         ELSE removeRedundantTransposePairs(G, i + 1, changed)

\* the tests of rule 2 on operand k of a matmul
operandMatches(G, matmul, k) ==
    LET input == G.op[matmul].inputs[k]
        source == G.ten[input].source
    IN  /\ source # NoOperator
        /\ G.op[source].type = "Transpose"
        /\ Cardinality(G.ten[input].targets) = 1
        /\ isLastTwoDimsSwap(G.op[source].permute, Len(G.ten[input].dims))

\* setTransA(!getTransA()) for k = 1, setTransB(!getTransB()) for k = 2
toggleTrans(G, matmul, k) ==
    IF k = 1 THEN [G EXCEPT !.op[matmul].transA = ~@]
    ELSE [G EXCEPT !.op[matmul].transB = ~@]

\* rule 2 applied to operand k of a matmul
fuseOperand(G, matmul, k) ==
    LET input == G.op[matmul].inputs[k]
        transposeOp == G.ten[input].source
        original == G.op[transposeOp].inputs[1]
        originalSource == G.ten[original].source
        g1 == replaceInput(toggleTrans(G, matmul, k), matmul, input, original)
        g2 == addTarget(removeTarget(g1, original, transposeOp),
                        original, matmul)
        g3 == removePredecessors(g2, matmul, transposeOp)
        g4 == IF originalSource # NoOperator
              THEN addPredecessors(
                       addSuccessors(
                           removeSuccessors(g3, originalSource, transposeOp),
                           originalSource, matmul),
                       matmul, originalSource)
              ELSE g3
    IN  removeTensor(removeOperator(g4, transposeOp), input)

\* one iteration of the for loop of rule 2: both operands of ops[i]
fuseMatmul(G, matmul) ==
    LET a == IF operandMatches(G, matmul, 1)
             THEN [g |-> fuseOperand(G, matmul, 1), changed |-> TRUE]
             ELSE [g |-> G, changed |-> FALSE]
        b == IF operandMatches(a.g, matmul, 2)
             THEN [g |-> fuseOperand(a.g, matmul, 2), changed |-> TRUE]
             ELSE [g |-> a.g, changed |-> FALSE]
    IN  [g |-> b.g, changed |-> a.changed \/ b.changed]

RECURSIVE fuseTransposeIntoMatmul(_, _, _)
\* the for loop of rule 2 from position i (counted from 1)
fuseTransposeIntoMatmul(G, i, changed) ==
    IF i > Len(G.ops) THEN [g |-> G, changed |-> changed]
    ELSE IF G.op[G.ops[i]].type = "MatMul"
         THEN LET r == fuseMatmul(G, G.ops[i])
              IN  fuseTransposeIntoMatmul(r.g, i + 1, changed \/ r.changed)
         ELSE fuseTransposeIntoMatmul(G, i + 1, changed)

RECURSIVE pairScanVisits(_, _, _)
\* the operators that the while loop of rule 1 takes as op1 = ops[i], in
\* the order of the visits, from position i (counted from 1)
pairScanVisits(G, i, visited) ==
    IF i > Len(G.ops) THEN visited
    ELSE IF pairMatches(G, G.ops[i])
         THEN pairScanVisits(removePair(G, G.ops[i]), i,
                             Append(visited, G.ops[i]))
         ELSE pairScanVisits(G, i + 1, Append(visited, G.ops[i]))

RECURSIVE fuseScanVisits(_, _, _)
\* the operators that the for loop of rule 2 takes as op = ops[i], in the
\* order of the visits, from position i (counted from 1)
fuseScanVisits(G, i, visited) ==
    IF i > Len(G.ops) THEN visited
    ELSE IF G.op[G.ops[i]].type = "MatMul"
         THEN fuseScanVisits(fuseMatmul(G, G.ops[i]).g, i + 1,
                             Append(visited, G.ops[i]))
         ELSE fuseScanVisits(G, i + 1, Append(visited, G.ops[i]))

MAX_ITERATIONS == 10

loopGoesOnMutant(changed, iteration) ==
    iteration < MAX_ITERATIONS

\* the test of the outer loop
loopGoesOn(changed, iteration) ==
    changed /\ iteration < MAX_ITERATIONS

RECURSIVE optimizeLoop(_, _, _, _)
\* while (changed && iteration < MAX_ITERATIONS); fired counts the
\* iterations in which a rule fired
optimizeLoop(G, changed, iteration, fired) ==
    IF loopGoesOn(changed, iteration)
    THEN LET r1 == removeRedundantTransposePairs(G, 1, FALSE)
             r2 == fuseTransposeIntoMatmul(r1.g, 1, FALSE)
             c == r1.changed \/ r2.changed
         IN  optimizeLoop(r2.g, c, iteration + 1,
                          IF c THEN fired + 1 ELSE fired)
    ELSE [g |-> G, iteration |-> iteration, changed |-> changed,
          fired |-> fired]

optimize(G) == optimizeLoop(G, TRUE, 0, 0)

(***************************************************************************)
(* inferShape and GraphObj::shape_infer.  Shapes have two or more          *)
(* dimensions.                                                             *)
(***************************************************************************)
\* std::nullopt
Nullopt == [has |-> FALSE, shape |-> << >>]

\* an optional that holds a shape
Some(shape) == [has |-> TRUE, shape |-> shape]

\* std::swap(shape[shape.size() - 2], shape[shape.size() - 1])
swapLastTwo(shape) ==
    LET n == Len(shape)
    IN  [shape EXCEPT ![n - 1] = shape[n], ![n] = shape[n - 1]]

\* Shape infer_broadcast(const Shape &A, const Shape &B): the dimensions
\* are aligned at the right, a missing one counts as 1
infer_broadcast(A, B) ==
    LET maxDim == IF Len(A) > Len(B) THEN Len(A) ELSE Len(B)
        dimA(i) == IF Len(A) - i >= 1 THEN A[Len(A) - i] ELSE 1
        dimB(i) == IF Len(B) - i >= 1 THEN B[Len(B) - i] ELSE 1
    IN  [j \in 1 .. maxDim |->
            IF dimA(maxDim - j) > dimB(maxDim - j) THEN dimA(maxDim - j)
                                                   ELSE dimB(maxDim - j)]

\* optional<vector<Shape>> MatmulObj::inferShape(const TensorVec &inputs)
matmulInferShape(obj, A, B) ==
    IF (obj.transA /\ Len(A) < 2) \/ (obj.transB /\ Len(B) < 2) THEN Nullopt
    ELSE LET shapeA == IF obj.transA THEN swapLastTwo(A) ELSE A
             shapeB == IF obj.transB THEN swapLastTwo(B) ELSE B
         IN  IF shapeA[Len(shapeA)] # shapeB[Len(shapeB) - 1] THEN Nullopt
             ELSE Some(SubSeq(shapeA, 1, Len(shapeA) - 2)
                           \o << shapeA[Len(shapeA) - 1],
                                 shapeB[Len(shapeB)] >>)

\* TransposeObj::inferShape: axis i of the output is axis permute[i] of
\* the input
transposeInferShape(obj, A) ==
    IF Len(obj.permute) # Len(A) THEN Nullopt
    ELSE Some([i \in DOMAIN A |-> A[obj.permute[i] + 1]])

\* op->inferShape(): the operator's rule on the shapes its inputs have now
inferShape(G, o) ==
    LET obj == G.op[o]
        dimsOf(k) == G.ten[obj.inputs[k]].dims
    IN  IF obj.type = "MatMul"
        THEN matmulInferShape(obj, dimsOf(1), dimsOf(2))
        ELSE transposeInferShape(obj, dimsOf(1))

\* Tensor GraphObj::getTensor(int fuid): the first tensor of the list with
\* this identity, NULL when there is none
getTensor(G, fuid) ==
    IF \E i \in DOMAIN G.tensors : G.tensors[i] = fuid THEN fuid ELSE NULL

\* void TensorObj::setShape(Shape shape_)
setShape(G, t, shape) == [G EXCEPT !.ten[t].dims = shape]

shapeDiffersMutant(newShape, oldShape) == FALSE

\* if (newShape != oldShape)
shapeDiffers(newShape, oldShape) == newShape # oldShape

\* the body of the loop of shape_infer for one operator; ok is false when
\* an assertion or a null tensor stops the walk
inferOne(G, o) ==
    LET ans == inferShape(G, o)
        out == G.op[o].outputs[1]
    IN  IF ~ans.has THEN [g |-> G, ok |-> FALSE]
        ELSE IF ~shapeDiffers(ans.shape, G.ten[out].dims)
             THEN [g |-> G, ok |-> TRUE]
        ELSE IF getTensor(G, out) = NULL THEN [g |-> G, ok |-> FALSE]
        ELSE [g |-> setShape(G, getTensor(G, out), ans.shape), ok |-> TRUE]

RECURSIVE shape_inferMutant(_, _)
shape_inferMutant(G, i) ==
    IF i > Len(G.ops) THEN [g |-> G, ok |-> TRUE]
    ELSE LET r == inferOne(G, G.ops[i])
             rest == shape_inferMutant(r.g, i + 1)
         IN  [g |-> rest.g, ok |-> r.ok /\ rest.ok]

\* void GraphObj::shape_infer(), from the i-th operator of the list on
RECURSIVE shape_infer(_, _)
shape_infer(G, i) ==
    IF i > Len(G.ops) THEN [g |-> G, ok |-> TRUE]
    ELSE LET r == inferOne(G, G.ops[i])
         IN  IF r.ok THEN shape_infer(r.g, i + 1) ELSE r

\* what the loop of shape_infer does from the i-th operator on, in order:
\* an inferShape event for each operator whose contract is called, with
\* the shape it returned (no dimensions for std::nullopt), and a setShape
\* event for each tensor that is given a shape
RECURSIVE inferLog(_, _, _)
inferLog(G, i, log) ==
    IF i > Len(G.ops) THEN log
    ELSE LET o == G.ops[i]
             ans == inferShape(G, o)
             out == G.op[o].outputs[1]
             called == Append(log, [ev |-> "inferShape", t |-> o,
                                    dims |-> ans.shape])
             r == inferOne(G, o)
         IN  IF ~r.ok THEN called
             ELSE IF r.g = G THEN inferLog(G, i + 1, called)
             ELSE inferLog(r.g, i + 1,
                           Append(called, [ev |-> "setShape", t |-> out,
                                           dims |-> ans.shape]))

(***************************************************************************)
(* GraphObj::checkValid                                                    *)
(***************************************************************************)
isOrphanMutant(G, t) ==
    G.ten[t].targets = {} \/ G.ten[t].source = NoOperator

\* tensor->getTargets().size() == 0 && nullptr == tensor->getSource()
isOrphan(G, t) ==
    G.ten[t].targets = {} /\ G.ten[t].source = NoOperator

\* the first loop: the assertions on one tensor of the list
tensorValid(G, t) ==
    /\ ~isOrphan(G, t)
    /\ \A o \in G.ten[t].targets : o \in Range(G.ops)
    /\ ~(G.ten[t].source # NoOperator /\ G.ten[t].source \notin Range(G.ops))

\* the second loop: the assertions on one operator of the list
operatorValid(G, o) ==
    /\ \A k \in DOMAIN G.op[o].inputs : G.op[o].inputs[k] \in Range(G.tensors)
    /\ \A k \in DOMAIN G.op[o].outputs :
           G.op[o].outputs[k] \in Range(G.tensors)
    /\ \A q \in G.op[o].preds : q \in Range(G.ops)
    /\ \A q \in G.op[o].succs : q \in Range(G.ops)

\* the third loop: no tensor of the list has the identity of an earlier one
fuidsUnique(G) ==
    \A i \in DOMAIN G.tensors :
        \A j \in 1 .. (i - 1) : G.tensors[j] # G.tensors[i]

\* bool GraphObj::checkValid() const: TRUE when it returns true, FALSE
\* when one of its assertions fails
checkValid(G) ==
    /\ \A i \in DOMAIN G.tensors : tensorValid(G, G.tensors[i])
    /\ \A i \in DOMAIN G.ops : operatorValid(G, G.ops[i])
    /\ fuidsUnique(G)

(***************************************************************************)
(* GraphObj::dataMalloc                                                    *)
(***************************************************************************)
\* the size of one element of a Float32 tensor
ElementBytes == 4

\* size_t TensorObj::size(): the number of elements
RECURSIVE elements(_)
elements(dims) ==
    IF dims = << >> THEN 1 ELSE Head(dims) * elements(Tail(dims))

\* size_t TensorObj::getBytes()
getBytes(G, t) == elements(G.ten[t].dims) * ElementBytes

\* a tensor that is bound to no memory
NoBlob == [base |-> NULL, offset |-> 0]

blobAtMutant(basePtr, offset) == [base |-> basePtr, offset |-> 0]

\* static_cast<char *>(basePtr) + offsets[i]: an address is the buffer it
\* lies in and the distance from the start of that buffer
blobAt(basePtr, offset) == [base |-> basePtr, offset |-> offset]

\* the state of a dataMalloc call: the allocator's fields, the offsets
\* recorded, the requests made, the steps taken and the buffers handed out
MallocState(a) ==
    [a |-> a, offsets |-> << >>, requests |-> EmptyBag, log |-> << >>,
     commits |-> 0]

\* phase 1, from the i-th tensor on: allocator.alloc(tensor->getBytes())
RECURSIVE planOffsets(_, _, _)
planOffsets(G, i, st) ==
    IF i > Len(G.tensors) THEN st
    ELSE LET t == G.tensors[i]
             bytes == getBytes(G, t)
             r == allocBody(st.a, getAlignedSize(bytes))
         IN  planOffsets(G, i + 1,
                 [st EXCEPT !.a.used = r.used,
                            !.a.peak = r.peak,
                            !.a.freeBlocks = r.freeBlocks,
                            !.a.highWater =
                                Max(@, r.ret + getAlignedSize(bytes)),
                            !.offsets = Append(@, r.ret),
                            !.requests = @ (+) SetToBag({<< r.ret, bytes >>}),
                            !.log = Append(@, [ev |-> "alloc", t |-> t])])

\* phase 2: void *basePtr = allocator.getPtr()
commitBuffer(st, h) ==
    LET logged == [st EXCEPT !.log = Append(@, [ev |-> "getPtr",
                                                t |-> 0])]
    IN  IF getPtrCommits(st.a.ptr)
        THEN [logged EXCEPT !.a.ptr = h, !.commits = @ + 1]
        ELSE logged

bindTensorMutant(G, st, t, offset, h) ==
    LET again == commitBuffer(st, h)
    IN  [g |-> [G EXCEPT !.ten[t].data = blobAt(again.a.ptr, offset)],
         st |-> [again EXCEPT !.log = Append(@, [ev |-> "bind", t |-> t])]]

\* tensors[i]->setDataBlob(make_ref<BlobObj>(runtime, memPtr))
bindTensor(G, st, t, offset, h) ==
    [g |-> [G EXCEPT !.ten[t].data = blobAt(st.a.ptr, offset)],
     st |-> [st EXCEPT !.log = Append(@, [ev |-> "bind", t |-> t])]]

\* phase 3, from the i-th tensor on
RECURSIVE bindTensors(_, _, _, _)
bindTensors(G, i, st, h) ==
    IF i > Len(G.tensors) THEN [g |-> G, st |-> st]
    ELSE LET b == bindTensor(G, st, G.tensors[i], st.offsets[i], h)
         IN  bindTensors(b.g, i + 1, b.st, h)

dataMallocMutant(G, a, h) ==
    LET s == topo_sort(G)
        st == MallocState(a)
    IN  IF ~s.ret THEN [g |-> s.g, st |-> st, ok |-> FALSE]
        ELSE IF s.g.tensors = << >> THEN [g |-> s.g, st |-> st, ok |-> TRUE]
        ELSE LET planned == planOffsets(s.g, 1, st)
                 committed == commitBuffer(planned, h)
                 bound == bindTensors(s.g, 1, committed, h)
             IN  [g |-> bound.g, st |-> bound.st, ok |-> TRUE]

\* void GraphObj::dataMalloc(), the allocator's fields being a and the
\* runtime's next buffer h: the graph and the call's state afterwards,
\* ok being false when an assertion stopped the call
dataMalloc(G, a, h) ==
    LET s == topo_sort(G)
        st == MallocState(a)
    IN  IF ~s.ret THEN [g |-> s.g, st |-> st, ok |-> FALSE]
        ELSE IF s.g.tensors = << >> THEN [g |-> s.g, st |-> st, ok |-> TRUE]
        ELSE IF ~PlanningMode(a.ptr)
             THEN [g |-> s.g, st |-> st, ok |-> FALSE]
        ELSE LET planned == planOffsets(s.g, 1, st)
                 committed == commitBuffer(planned, h)
                 bound == bindTensors(s.g, 1, committed, h)
             IN  [g |-> bound.g, st |-> bound.st, ok |-> TRUE]

(***************************************************************************)
(* Actions of the graph.                                                   *)
(***************************************************************************)
\* the graph after construction
EmptyGraph == [ops |-> << >>, tensors |-> << >>, sorted |-> FALSE,
               op |-> << >>, ten |-> << >>]

\* the record of a call: its name, its operator argument, its result, for
\* optimize the numbers of iterations made and of iterations that fired,
\* for dataMalloc the steps it took in order and the number of buffers the
\* runtime handed out
Call(name, arg, ret) ==
    [op |-> name, arg |-> arg, ret |-> ret, iteration |-> 0, fired |-> 0,
     log |-> << >>, commits |-> 0]

GInit ==
    /\ ops = << >>
    /\ tensors = << >>
    /\ sorted = FALSE
    /\ opObj = << >>
    /\ tensorObj = << >>
    /\ gpre = EmptyGraph
    /\ glast = Call("none", NoOperator, TRUE)

\* the graph's fields take the values of G
Becomes(G) ==
    /\ ops' = G.ops
    /\ tensors' = G.tensors
    /\ sorted' = G.sorted
    /\ opObj' = G.op
    /\ tensorObj' = G.ten

\* Tensor GraphObj::addTensor(Shape dim, DataType dtype)
AddTensor(dims) ==
    /\ Len(opObj) + Len(tensorObj) < MaxObjects
    /\ LET t == Len(tensorObj) + 1
       IN  /\ tensorObj' = Append(tensorObj, [source |-> NoOperator,
                                              targets |-> {}, dims |-> dims,
                                              data |-> NoBlob])
           /\ tensors' = Append(tensors, t)
    /\ gpre' = EmptyGraph
    /\ glast' = Call("addTensor", NoOperator, TRUE)
    /\ UNCHANGED << ops, sorted, opObj >>
    /\ UNCHANGED avars

\* a new operator object over tensors of the graph
NewOperator(type, ins, out, permute, transA, transB) ==
    [type |-> type, inputs |-> ins, outputs |-> << out >>,
     preds |-> {}, succs |-> {},
     permute |-> permute, transA |-> transA, transB |-> transB]

\* a tensor no operator has touched; such tensors differ in identity only
Fresh(t) == tensorObj[t].source = NoOperator /\ tensorObj[t].targets = {}

\* the k lowest fresh tensors of the graph that are not in the set used
RECURSIVE LowestFresh(_, _)
LowestFresh(k, used_) ==
    LET F == { t \in Range(tensors) : Fresh(t) /\ t \notin used_ }
    IN  IF k = 0 \/ F = {} THEN {}
        ELSE LET f == CHOOSE t \in F : \A u \in F : t <= u
             IN  {f} \cup LowestFresh(k - 1, used_ \cup {f})

\* the operators a caller can build over the tensors of the graph: the
\* output is a tensor that no operator produces yet.  Fresh tensors are
\* taken lowest first.  With inPlace the output may be one of the inputs.
Buildable(inPlace) ==
    LET T == Range(tensors)
        Touched == { t \in T : ~Fresh(t) }
        First == Touched \cup LowestFresh(1, {})
        Second(x) == Touched \cup LowestFresh(1, {})
                         \cup (IF Fresh(x) THEN LowestFresh(2, {}) ELSE {})
        Outs(ins) == { t \in (IF inPlace THEN Touched \cup ins
                                           ELSE Touched \ ins) :
                           tensorObj[t].source = NoOperator }
                         \cup LowestFresh(1, ins)
    IN  UNION { { NewOperator("Transpose", << x >>, out, p, FALSE, FALSE) :
                      out \in Outs({x}), p \in Permutes } : x \in First }
        \cup UNION { UNION { { NewOperator("MatMul", << x, y >>, out, << >>,
                                           FALSE, FALSE) :
                                   out \in Outs({x, y}) } :
                             y \in Second(x) } : x \in First }

\* IT_ASSERT(checkValid(graph)) of an operator's constructor: the shapes
\* of the inputs are ones the operator accepts and the output tensor has
\* the shape they give
checkValidOperator(G, o) ==
    /\ inferShape(G, o).has
    /\ inferShape(G, o).shape = G.ten[G.op[o].outputs[1]].dims

\* make an operator and hand it to addOperatorAndConnect
AddOperator(obj) ==
    /\ Len(opObj) + Len(tensorObj) < MaxObjects
    /\ tensorObj[obj.outputs[1]].source = NoOperator
    /\ obj.type = "Transpose" =>
           Len(obj.permute) = Len(tensorObj[obj.inputs[1]].dims)
    /\ LET o == Len(opObj) + 1
           G == [Graph EXCEPT !.op = Append(@, obj)]
       IN  /\ checkValidOperator(G, o)
           /\ Becomes(addOperatorAndConnect(G, o))
           /\ glast' = Call("addOperatorAndConnect", o, TRUE)
    /\ gpre' = EmptyGraph
    /\ UNCHANGED avars

\* addOperatorAndConnect called once more on an operator that was
\* connected once
ConnectAgain(o) ==
    /\ Cardinality({ i \in DOMAIN ops : ops[i] = o }) = 1
    /\ Becomes(addOperatorAndConnect(Graph, o))
    /\ gpre' = Graph
    /\ glast' = Call("connectAgain", o, TRUE)
    /\ UNCHANGED avars

\* void GraphObj::optimize()
Optimize ==
    /\ LET r == optimize(Graph)
       IN  /\ Becomes(r.g)
           /\ glast' = [Call("optimize", NoOperator, r.changed)
                            EXCEPT !.iteration = r.iteration,
                                   !.fired = r.fired]
    /\ gpre' = Graph
    /\ UNCHANGED avars

\* bool GraphObj::topo_sort()
TopoSort ==
    /\ LET r == topo_sort(Graph)
       IN  /\ Becomes(r.g)
           /\ glast' = Call("topo_sort", NoOperator, r.ret)
    /\ gpre' = Graph
    /\ UNCHANGED avars

\* void GraphObj::dataMalloc(); h is the handle runtime->alloc returns
DataMalloc(h) ==
    /\ LET r == dataMalloc(Graph, Fields, h)
       IN  /\ Becomes(r.g)
           /\ used' = r.st.a.used
           /\ peak' = r.st.a.peak
           /\ ptr' = r.st.a.ptr
           /\ freeBlocks' = r.st.a.freeBlocks
           /\ highWater' = r.st.a.highWater
           /\ live' = live (+) r.st.requests
           /\ maxUsed' = Max(maxUsed, r.st.a.used)
           /\ backendCalls' = backendCalls + r.st.commits
           /\ backendBytes' = IF r.st.commits > 0 THEN r.st.a.peak
                                                 ELSE backendBytes
           /\ glast' = [Call("dataMalloc", NoOperator, r.ok)
                            EXCEPT !.log = r.st.log,
                                   !.commits = r.st.commits]
           /\ last' = [op |-> "dataMalloc", size |-> 0, addr |-> 0,
                       ret |-> r.st.a.ptr, fault |-> ~r.ok]
    /\ pre' = Fields
    /\ UNCHANGED calls
    /\ gpre' = Graph

\* the caller gives an input tensor of the graph, one that no operator
\* produces, another shape
SetShape(t, dims) ==
    /\ tensorObj[t].source = NoOperator
    /\ tensorObj[t].dims # dims
    /\ Becomes(setShape(Graph, t, dims))
    /\ gpre' = EmptyGraph
    /\ glast' = Call("setShape", NoOperator, TRUE)
    /\ UNCHANGED avars

\* void GraphObj::shape_infer()
ShapeInfer ==
    /\ LET r == shape_infer(Graph, 1)
       IN  /\ Becomes(r.g)
           /\ glast' = [Call("shape_infer", NoOperator, r.ok) EXCEPT
                            !.log = inferLog(Graph, 1, << >>)]
    /\ gpre' = Graph
    /\ UNCHANGED avars

\* make_ref<TensorObj>(dim, dtype, runtime): a tensor that is not in the
\* graph's list
MakeTensor(dims) ==
    /\ tensorObj' = Append(tensorObj, [source |-> NoOperator,
                                       targets |-> {}, dims |-> dims,
                                       data |-> NoBlob])
    /\ gpre' = EmptyGraph
    /\ glast' = Call("none", NoOperator, TRUE)
    /\ UNCHANGED << ops, tensors, sorted, opObj >>
    /\ UNCHANGED avars

\* Tensor GraphObj::addTensor(const Tensor &tensor), the tensor being of
\* the graph's runtime
AddTensorObj(t) ==
    /\ tensors' = Append(tensors, t)
    /\ gpre' = EmptyGraph
    /\ glast' = Call("addTensor", NoOperator, TRUE)
    /\ UNCHANGED << ops, sorted, opObj, tensorObj >>
    /\ UNCHANGED avars

\* the operators a caller can build over tensor objects, in the graph's
\* list or not: the output is a tensor that no operator produces yet.
\* One permutation stands for all; checkValid reads none.
BuildableOver(T) ==
    LET Outs(ins) == { t \in T \ ins : tensorObj[t].source = NoOperator }
    IN  UNION { { NewOperator("Transpose", << x >>, out, << 0, 2, 1 >>,
                              FALSE, FALSE) :
                      out \in Outs({x}) } : x \in T }
        \cup UNION { { NewOperator("MatMul", << x, y >>, out, << >>,
                                   FALSE, FALSE) :
                           out \in Outs({x, y}) } : x \in T, y \in T }

\* bool GraphObj::checkValid() const
CheckValid ==
    /\ glast' = Call("checkValid", NoOperator, checkValid(Graph))
    /\ gpre' = EmptyGraph
    /\ UNCHANGED << ops, tensors, sorted, opObj, tensorObj >>
    /\ UNCHANGED avars

GraphNext ==
    \/ \E dims \in Shapes : AddTensor(dims)
    \/ \E obj \in Buildable(FALSE) : AddOperator(obj)
    \/ Optimize

\* the number of objects created so far
Objects == Len(opObj) + Len(tensorObj)

ConnectNext ==
    \/ \E dims \in Shapes : Objects < MaxConnectObjects /\ AddTensor(dims)
    \/ \E obj \in Buildable(TRUE) :
           Objects < MaxConnectObjects /\ AddOperator(obj)
    \/ \E o \in Range(ops) : ConnectAgain(o)

Init == AInit /\ GInit

SpecPlan == Init /\ [][PlanNext]_vars

SpecLong == Init /\ [][LongNext]_vars

SpecCommit == Init /\ [][CommitNext]_vars

SpecGraph == Init /\ [][GraphNext]_vars

SpecConnect == Init /\ [][ConnectNext]_vars

SortNext ==
    \/ \E dims \in Shapes : Objects < MaxSortObjects /\ AddTensor(dims)
    \/ \E obj \in Buildable(TRUE) : Objects < MaxSortObjects /\ AddOperator(obj)
    \/ TopoSort

SpecSort == Init /\ [][SortNext]_vars

\* tensors of 100 and 200 bytes
MallocShapes == { << 5, 5 >>, << 5, 10 >> }

MallocNext ==
    \/ \E dims \in MallocShapes :
           Objects < MaxMallocObjects /\ AddTensor(dims)
    \/ \E obj \in Buildable(FALSE) :
           Objects < MaxMallocObjects /\ AddOperator(obj)
    \/ \E h \in Handles : DataMalloc(h)

SpecMalloc == Init /\ [][MallocNext]_vars

\* shapes that the operators turn into one another
InferShapes == { << 2, 2, 2 >>, << 2, 2, 3 >>, << 2, 3, 2 >> }

InferNext ==
    \/ \E dims \in InferShapes :
           Objects < MaxInferObjects /\ AddTensor(dims)
    \/ \E obj \in Buildable(FALSE) :
           Objects < MaxInferObjects /\ AddOperator(obj)
    \/ \E t \in Range(tensors), dims \in InferShapes : SetShape(t, dims)
    \/ TopoSort
    \/ ShapeInfer

SpecInfer == Init /\ [][InferNext]_vars

FlagNext ==
    \/ \E dims \in Shapes : Objects < MaxFlagObjects /\ AddTensor(dims)
    \/ \E obj \in Buildable(FALSE) :
           Objects < MaxFlagObjects /\ AddOperator(obj)
    \/ TopoSort
    \/ Optimize

SpecFlag == Init /\ [][FlagNext]_vars

\* the graphs of MaxChainOps unary operators, connected in the order of
\* their numbers: operator k reads the graph's input tensor (from[k] = 0)
\* or the output of operator from[k], and writes a tensor of its own
ChainTensors == 1 .. (MaxChainOps + 1)

ChainStart(from) ==
    [ops |-> << >>,
     tensors |-> [t \in ChainTensors |-> t],
     sorted |-> FALSE,
     op |-> [k \in 1 .. MaxChainOps |->
                NewOperator("Transpose", << from[k] + 1 >>, k + 1,
                            << 0, 2, 1 >>, FALSE, FALSE)],
     ten |-> [t \in ChainTensors |->
                 [source |-> NoOperator, targets |-> {},
                  dims |-> << 2, 2, 2 >>, data |-> NoBlob]]]

RECURSIVE ChainGraph(_, _)
ChainGraph(G, k) ==
    IF k > MaxChainOps THEN G
    ELSE ChainGraph(addOperatorAndConnect(G, k), k + 1)

ChainInit ==
    /\ AInit
    /\ \E from \in [1 .. MaxChainOps -> 0 .. MaxChainOps] :
           /\ \A k \in 1 .. MaxChainOps : from[k] # k
           /\ LET G == ChainGraph(ChainStart(from), 1)
              IN  /\ ops = G.ops
                  /\ tensors = G.tensors
                  /\ sorted = G.sorted
                  /\ opObj = G.op
                  /\ tensorObj = G.ten
    /\ gpre = EmptyGraph
    /\ glast = Call("addOperatorAndConnect", MaxChainOps, TRUE)

ChainNext == TopoSort

SpecChain == ChainInit /\ [][ChainNext]_vars

(***************************************************************************)
(* MatmulObj::inferShape on its own: one MatMul operator made over three   *)
(* tensors of shape {1, 1}, which its constructor accepts with every       *)
(* setting of transA and transB, whose inputs are then given every shape   *)
(* of two to MaxMatmulRank dimensions with setShape; shape_infer calls the *)
(* contract.                                                               *)
(***************************************************************************)
MatmulDims == { 1, 2 }

MatmulShapes == UNION { [1 .. r -> MatmulDims] : r \in 2 .. MaxMatmulRank }

MatmulStart(transA, transB) ==
    [ops |-> << >>,
     tensors |-> << 1, 2, 3 >>,
     sorted |-> FALSE,
     op |-> << NewOperator("MatMul", << 1, 2 >>, 3, << >>, transA, transB) >>,
     ten |-> [t \in 1 .. 3 |->
                 [source |-> NoOperator, targets |-> {},
                  dims |-> << 1, 1 >>, data |-> NoBlob]]]

MatmulInit ==
    /\ AInit
    /\ \E A, B \in MatmulShapes, transA, transB \in BOOLEAN :
           LET made == MatmulStart(transA, transB)
               G == setShape(setShape(addOperatorAndConnect(made, 1), 1, A),
                             2, B)
           IN  /\ checkValidOperator(made, 1)
               /\ ops = G.ops
               /\ tensors = G.tensors
               /\ sorted = G.sorted
               /\ opObj = G.op
               /\ tensorObj = G.ten
    /\ gpre = EmptyGraph
    /\ glast = Call("setShape", NoOperator, TRUE)

MatmulNext == ShapeInfer

SpecMatmul == MatmulInit /\ [][MatmulNext]_vars

(***************************************************************************)
(* Allocator::getAlignedSize on its own, called on sizes from the whole    *)
(* range of size_t: the small sizes, the sizes just below 2^64, and the    *)
(* sizes around every carry between the 16-bit parts.  Sizes and results   *)
(* are held as limbs.                                                      *)
(***************************************************************************)
AlignLow == (0 .. MaxAlignOffset) \cup ((Limb - 1 - MaxAlignOffset) .. (Limb - 1))

AlignSizes ==
    { << low, a, b, c >> : low \in AlignLow, a \in { 0, Limb - 1 },
                           b \in { 0, Limb - 1 }, c \in { 0, Limb - 1 } }

\* size_t Allocator::getAlignedSize(size_t size)
GetAlignedSize(size) ==
    /\ last' = [op |-> "getAlignedSize", size |-> size, addr |-> 0,
                ret |-> getAlignedSizeU64(size), fault |-> FALSE]
    /\ UNCHANGED << used, peak, ptr, freeBlocks, live, maxUsed, highWater,
                    backendCalls, backendBytes, calls, pre >>
    /\ UNCHANGED gvars

AlignNext == \E size \in AlignSizes : GetAlignedSize(size)

SpecAlign == Init /\ [][AlignNext]_vars

\* the number of operators made and of tensors added to the list so far
Added == Len(opObj) + Len(tensors)

ValidNext ==
    \/ \E dims \in Shapes : Objects < MaxValidObjects /\ MakeTensor(dims)
    \/ \E dims \in Shapes :
           Objects < MaxValidObjects /\ Added < MaxValidObjects
               /\ AddTensor(dims)
    \/ \E t \in DOMAIN tensorObj :
           Added < MaxValidObjects /\ AddTensorObj(t)
    \/ \E obj \in BuildableOver(DOMAIN tensorObj) :
           Objects < MaxValidObjects /\ AddOperator(obj)
    \/ CheckValid

SpecValid == Init /\ [][ValidNext]_vars

(***************************************************************************)
(* Properties of the allocator.                                            *)
(***************************************************************************)
RECURSIVE BagBytes(_, _)
\* the sum of the aligned sizes of the allocations of bag b that are in S
BagBytes(b, S) ==
    IF S = {} THEN 0
    ELSE LET e == CHOOSE x \in S : TRUE
         IN  b[e] * getAlignedSize(e[2]) + BagBytes(b, S \ {e})

LiveBytes == BagBytes(live, BagToSet(live))

AllocDone == last.op = "alloc" /\ ~last.fault

FreeDone == last.op = "free" /\ ~last.fault

\* the aligned size of the last call's request
LastSize == getAlignedSize(last.size)

\* block [o, o + fb[o]) is directly followed by block p
Adjacent(fb, o, p) == o # p /\ o + fb[o] = p

\* blocks o and p of the table share a byte
Overlap(fb, o, p) ==
    /\ o # p
    /\ Max(o, p) < (IF o + fb[o] <= p + fb[p] THEN o + fb[o] ELSE p + fb[p])

\* C1: in planning mode used is the sum of the aligned sizes of the live
\* allocations, peak never decreases, and peak is the largest value used
\* has taken so far.
C1_UsedPeakAccounting ==
    /\ used = LiveBytes
    /\ peak = maxUsed
    /\ pre.peak <= peak
    /\ used <= peak

C1_Witness ==
    /\ FreeDone
    /\ LastSize > last.size
    /\ used > 0
    /\ peak > used
    /\ BagCardinality(live) >= 2

\* C2: after any free call no two distinct entries of the free-region table
\* are adjacent (offset_i + length_i = offset_j).
C2_CoalescedAfterFree ==
    FreeDone =>
        \A o \in DOMAIN freeBlocks : \A p \in DOMAIN freeBlocks :
            ~Adjacent(freeBlocks, o, p)

\* C3: the entries of the free-region table are pairwise non-overlapping
\* byte ranges.
C3_FreeBlocksDisjoint ==
    \A o \in DOMAIN freeBlocks : \A p \in DOMAIN freeBlocks :
        ~Overlap(freeBlocks, o, p)

\* C4: when no free region fits the aligned size, alloc returns the
\* high-water mark of the arena (the largest end offset handed out so far)
\* and leaves the free-region table unchanged.
C4_BumpAtHighWater ==
    (AllocDone /\ Fits(pre.freeBlocks, LastSize) = {}) =>
        /\ last.ret = pre.highWater
        /\ freeBlocks = pre.freeBlocks

\* C5: when some free region fits the aligned size s, alloc returns the
\* start o of the lowest such region; that entry is removed if its length is
\* s and otherwise replaced by one entry at o + s, shorter by s; every other
\* entry is unchanged.
C5_FirstFitShrinks ==
    (AllocDone /\ Fits(pre.freeBlocks, LastSize) # {}) =>
        LET F == Fits(pre.freeBlocks, LastSize)
            o == CHOOSE x \in F : \A q \in F : x <= q
            others == DOMAIN pre.freeBlocks \ {o}
            rest == IF pre.freeBlocks[o] = LastSize THEN {} ELSE {o + LastSize}
        IN  /\ last.ret = o
            /\ DOMAIN freeBlocks = others \cup rest
            /\ \A k \in rest : freeBlocks[k] = pre.freeBlocks[o] - LastSize
            /\ \A k \in others : freeBlocks[k] = pre.freeBlocks[k]

\* C6: alloc(size) returning o followed immediately by free(o, size) leaves
\* the free-region table equal to the table before the alloc.
C6_AllocFreeRestoresTable ==
    [][(/\ AllocDone
        /\ last'.op = "free"
        /\ ~last'.fault
        /\ last'.addr = last.ret
        /\ last'.size = last.size) => freeBlocks' = pre.freeBlocks]_vars

\* C7: the first getPtr call asks the backend once, for exactly peak bytes,
\* and caches the handle; later calls return the cached handle; the backend
\* is asked at most once.
C7_SingleCommit ==
    /\ backendCalls <= 1
    /\ (ptr = NULL) = (backendCalls = 0)
    /\ ptr # NULL => backendBytes = peak
    /\ last.op = "getPtr" =>
          /\ last.ret = ptr
          /\ ptr # NULL
          /\ pre.ptr # NULL => ptr = pre.ptr

C7_Witness ==
    /\ last.op = "getPtr"
    /\ pre.ptr # NULL
    /\ backendBytes > 0
    /\ freeBlocks # EmptyMap

\* C8: once the buffer is committed every alloc and every free faults on
\* its assertion and leaves used, peak and the free-region table as they
\* were.
C8_FrozenAfterCommit ==
    (pre.ptr # NULL /\ last.op \in {"alloc", "free"}) =>
        /\ last.fault
        /\ used = pre.used
        /\ peak = pre.peak
        /\ freeBlocks = pre.freeBlocks
        /\ used = LiveBytes

C8_Witness ==
    /\ pre.ptr # NULL
    /\ last.op = "free"
    /\ last.fault
    /\ used > 0

\* the lowest offset of a non-empty free-region table
LowestBlock(fb) == CHOOSE o \in DOMAIN fb : \A q \in DOMAIN fb : o <= q

\* C9 (as stated): alloc(0) yields a zero-length allocation at the current
\* mark of the arena (the bump position, be it used or the high-water mark)
\* and leaves used, peak and the free-region table unchanged.
C9_ZeroAtMark ==
    (AllocDone /\ LastSize = 0) =>
        /\ last.ret \in {pre.used, pre.highWater}
        /\ used = pre.used
        /\ peak = pre.peak
        /\ freeBlocks = pre.freeBlocks

\* C9 (amended): alloc(0) leaves used and peak unchanged; with an empty
\* free-region table it returns used and leaves the table empty; otherwise
\* it returns the start of the lowest free region, whose entry is removed
\* if its length is zero and kept as it is otherwise.
C9_ZeroAtFirstBlock ==
    (AllocDone /\ LastSize = 0) =>
        /\ used = pre.used
        /\ peak = pre.peak
        /\ IF DOMAIN pre.freeBlocks = {}
           THEN last.ret = pre.used /\ freeBlocks = pre.freeBlocks
           ELSE LET o == LowestBlock(pre.freeBlocks)
                IN  /\ last.ret = o
                    /\ freeBlocks = IF pre.freeBlocks[o] = 0
                                    THEN Erase(pre.freeBlocks, o)
                                    ELSE pre.freeBlocks

C9_Witness ==
    /\ AllocDone
    /\ last.size = 0
    /\ Cardinality(DOMAIN pre.freeBlocks) >= 2
    /\ last.ret # pre.used
    /\ last.ret # pre.highWater

\* the bytes of two live allocations lie apart
Apart(e, f) == e[1] + e[2] <= f[1] \/ f[1] + f[2] <= e[1]

\* C21: no two live allocations of non-zero size occupy overlapping byte
\* ranges.
C21_LiveDisjoint ==
    \A e \in BagToSet(live) : \A f \in BagToSet(live) :
        (e[2] > 0 /\ f[2] > 0) =>
            /\ e = f => CopiesIn(e, live) = 1
            /\ e # f => Apart(e, f)

\* C22: the range of every allocation that alloc hands out ends at or
\* before peak at the time of return, so no range ever handed out ends
\* beyond peak, and the buffer getPtr commits holds them all.
C22_RangeWithinPeak ==
    /\ AllocDone => last.ret + LastSize <= peak
    /\ highWater <= peak
    /\ ptr # NULL => highWater <= backendBytes

\* the buffer is committed after frees, while a live allocation ends
\* below the high-water mark and used is below peak
C22_Witness ==
    /\ last.op = "getPtr"
    /\ ptr # NULL
    /\ backendBytes = peak
    /\ \E e \in BagToSet(live) :
           e[2] > 0 /\ e[1] + getAlignedSize(e[2]) < highWater
                   /\ highWater = peak /\ used < peak

(***************************************************************************)
(* Connectivity of the graph.                                              *)
(***************************************************************************)
\* the operators and the tensors the graph holds
GraphOps == Range(ops)

GraphTensors == Range(tensors)

\* some tensor of the graph is produced by P and consumed by C
TensorLink(P, C) ==
    \E t \in GraphTensors :
        tensorObj[t].source = P /\ C \in tensorObj[t].targets

\* C10: after any sequence of addOperatorAndConnect and optimize calls,
\* every tensor of the graph with producer P and consumer C has C among
\* P's successors and P among C's predecessors; every predecessor or
\* successor link of an operator of the graph leads to an operator of the
\* graph and is carried by a tensor of the graph produced by the one and
\* consumed by the other.
C10_ConnectivitySymmetry ==
    /\ \A t \in GraphTensors :
           LET P == tensorObj[t].source
           IN  P # NoOperator =>
                   \A C \in tensorObj[t].targets :
                       /\ C \in opObj[P].succs
                       /\ P \in opObj[C].preds
    /\ \A A \in GraphOps :
           /\ \A B \in opObj[A].succs : B \in GraphOps /\ TensorLink(A, B)
           /\ \A B \in opObj[A].preds : B \in GraphOps /\ TensorLink(B, A)

\* the predecessor and successor sets of every operator and the consumer
\* sets of every tensor, as the graph value G holds them
Edges(G) ==
    [preds |-> [o \in DOMAIN G.op |-> G.op[o].preds],
     succs |-> [o \in DOMAIN G.op |-> G.op[o].succs],
     targets |-> [t \in DOMAIN G.ten |-> G.ten[t].targets]]

\* C11: a second call of addOperatorAndConnect on an operator leaves the
\* predecessor and successor sets of every operator and the consumer sets
\* of every tensor as they were after the first call.
C11_ConnectIdempotent ==
    glast.op = "connectAgain" => Edges(Graph) = Edges(gpre)

\* an operator with a predecessor and a successor was connected again
C11_Witness ==
    /\ glast.op = "connectAgain"
    /\ opObj[glast.arg].preds # {}
    /\ opObj[glast.arg].succs # {}

(***************************************************************************)
(* Properties of topo_sort.                                                *)
(***************************************************************************)
\* operator P produces an input tensor of operator C in the graph value G
Produces(G, P, C) ==
    \E i \in DOMAIN G.op[C].inputs : G.ten[G.op[C].inputs[i]].source = P

RECURSIVE Consumers(_, _, _)
\* the operators of G reached from the set S along producer-to-consumer
\* edges in at most n further steps
Consumers(G, S, n) ==
    IF n = 0 THEN S
    ELSE Consumers(G,
                   S \cup { C \in Range(G.ops) :
                                \E P \in S : Produces(G, P, C) },
                   n - 1)

\* operator o lies on a directed cycle of producer-to-consumer edges of G
OnCycle(G, o) ==
    \E C \in Range(G.ops) :
        Produces(G, o, C) /\ o \in Consumers(G, {C}, Len(G.ops))

\* the producer-to-consumer edges of G contain a directed cycle
HasCycle(G) == \E o \in Range(G.ops) : OnCycle(G, o)

\* the position of operator o in the list s
Position(s, o) == CHOOSE i \in DOMAIN s : s[i] = o

\* C12: topo_sort on a graph with a directed cycle returns false and leaves
\* the operator list in its previous order and the sorted flag false.
C12_CycleFails ==
    (glast.op = "topo_sort" /\ HasCycle(gpre)) =>
        /\ glast.ret = FALSE
        /\ ops = gpre.ops
        /\ sorted = FALSE

\* topo_sort ran on a graph with a cycle and with operators outside it
C12_Witness ==
    /\ glast.op = "topo_sort"
    /\ HasCycle(gpre)
    /\ \E o \in Range(gpre.ops) : ~OnCycle(gpre, o)

\* C13: topo_sort on an acyclic graph returns true, sets the sorted flag
\* and replaces the operator list by a permutation of itself in which
\* every operator comes after the producers of its inputs.
C13_SortsAcyclic ==
    (glast.op = "topo_sort" /\ ~HasCycle(gpre)) =>
        /\ glast.ret = TRUE
        /\ sorted = TRUE
        /\ Len(ops) = Len(gpre.ops)
        /\ Range(ops) = Range(gpre.ops)
        /\ \A o \in Range(ops) : \A P \in Range(ops) :
               Produces(Graph, P, o) => Position(ops, P) < Position(ops, o)

\* topo_sort ran on an unsorted acyclic graph and moved an operator
C13_Witness ==
    /\ glast.op = "topo_sort"
    /\ ~HasCycle(gpre)
    /\ ~gpre.sorted
    /\ ops # gpre.ops

(***************************************************************************)
(* Properties of optimize.                                                 *)
(***************************************************************************)
\* applying q after p gives the identity: q is the inverse of p
InversePermutes(p, q) ==
    /\ Len(p) = Len(q)
    /\ \A i \in DOMAIN p : q[p[i] + 1] = i - 1

\* in the graph value G, op1 and op2 are permutes with
\* y = op2(op1(x)), op2 undoes op1 and the intermediate tensor has op2 as
\* its only consumer
PairPattern(G, op1, op2) ==
    /\ op1 \in Range(G.ops)
    /\ G.op[op1].type = "Transpose"
    /\ G.op[op2].type = "Transpose"
    /\ G.ten[G.op[op1].outputs[1]].targets = {op2}
    /\ InversePermutes(G.op[op1].permute, G.op[op2].permute)

\* the pair pattern, where y feeds one or more consumers
InversePair(G, op1, op2) ==
    /\ PairPattern(G, op1, op2)
    /\ G.ten[G.op[op2].outputs[1]].targets # {}

\* what C14 promises for the pair op1, op2 of the graph before optimize
PairEliminated(op1, op2) ==
    LET x == gpre.op[op1].inputs[1]
        m == gpre.op[op1].outputs[1]
        y == gpre.op[op2].outputs[1]
    IN  /\ \A c \in gpre.ten[y].targets :
               /\ opObj[c].inputs =
                      [i \in DOMAIN gpre.op[c].inputs |->
                          IF gpre.op[c].inputs[i] = y THEN x
                          ELSE gpre.op[c].inputs[i]]
               /\ c \in tensorObj[x].targets
        /\ op1 \notin GraphOps
        /\ op2 \notin GraphOps
        /\ m \notin GraphTensors
        /\ y \notin GraphTensors

\* C14 as stated, on acyclic graphs: after optimize every inverse pair of
\* permutes of the graph is eliminated: the consumers of y take x instead
\* and x lists them, and the two permutes, the intermediate tensor and y
\* are gone.
C14_EveryPairEliminated ==
    (glast.op = "optimize" /\ ~HasCycle(gpre)) =>
        \A op1 \in DOMAIN gpre.op : \A op2 \in DOMAIN gpre.op :
            InversePair(gpre, op1, op2) => PairEliminated(op1, op2)

\* operand k of the matmul of the graph value G is produced by a permute
\* that swaps the last two axes only and is consumed by that matmul only
SwapOperand(G, matmul, k) ==
    /\ matmul \in Range(G.ops)
    /\ G.op[matmul].type = "MatMul"
    /\ LET t == G.op[matmul].inputs[k]
           T == G.ten[t].source
       IN  /\ T # NoOperator
           /\ G.op[T].type = "Transpose"
           /\ G.ten[t].targets = {matmul}
           /\ G.op[T].permute = << 0, 2, 1 >>

\* the inverse pairs and the swapped matmul operands of the graph value G
Patterns(G) ==
    { p \in { << "pair", a, b >> : a \in DOMAIN G.op, b \in DOMAIN G.op } :
          PairPattern(G, p[2], p[3]) }
        \cup { p \in { << "operand", a, k >> : a \in DOMAIN G.op,
                                               k \in 1 .. 2 } :
                   SwapOperand(G, p[2], p[3]) }

\* in the graph value G, the input x of op1 is not the output of a permute
PlainInput(G, op1) ==
    LET P == G.ten[G.op[op1].inputs[1]].source
    IN  P = NoOperator \/ G.op[P].type # "Transpose"

\* C14: after optimize an inverse pair of permutes, whose input x is not
\* itself the output of a permute and which is the only match of either
\* rewrite pattern in the graph, is eliminated: the consumers of y take x
\* instead and x lists them, and the two permutes, the intermediate tensor
\* and y are gone.
C14_IsolatedPairEliminated ==
    glast.op = "optimize" =>
        \A op1 \in DOMAIN gpre.op : \A op2 \in DOMAIN gpre.op :
            (/\ InversePair(gpre, op1, op2)
             /\ PlainInput(gpre, op1)
             /\ Patterns(gpre) = { << "pair", op1, op2 >> })
                => PairEliminated(op1, op2)

\* optimize ran on an acyclic graph with one isolated inverse pair whose
\* output feeds an operator that stays in the graph
C14_Witness ==
    /\ glast.op = "optimize"
    /\ ~HasCycle(gpre)
    /\ \E op1 \in DOMAIN gpre.op : \E op2 \in DOMAIN gpre.op :
           /\ InversePair(gpre, op1, op2)
           /\ PlainInput(gpre, op1)
           /\ Patterns(gpre) = { << "pair", op1, op2 >> }
           /\ gpre.op[op1].permute # gpre.op[op2].permute
           /\ \E c \in GraphOps :
                  c \in gpre.ten[gpre.op[op2].outputs[1]].targets

\* the transpose flag of operand k of a matmul object
TransFlag(obj, k) == IF k = 1 THEN obj.transA ELSE obj.transB

\* C15: after optimize, every matmul operand that was produced by a
\* last-two-axes swap consumed by that matmul only has its transpose flag
\* negated and is the tensor the swap was applied to, and the swap and its
\* output are gone from the graph; each operand on its own, so that both
\* flags are negated when both operands match.
C15_SwapFusedIntoMatmul ==
    (glast.op = "optimize" /\ ~HasCycle(gpre)) =>
        \A mm \in DOMAIN gpre.op : \A k \in 1 .. 2 :
            SwapOperand(gpre, mm, k) =>
                LET t == gpre.op[mm].inputs[k]
                    T == gpre.ten[t].source
                IN  /\ TransFlag(opObj[mm], k) = ~TransFlag(gpre.op[mm], k)
                    /\ opObj[mm].inputs[k] = gpre.op[T].inputs[1]
                    /\ T \notin GraphOps
                    /\ t \notin GraphTensors

\* C20: optimize makes at most MAX_ITERATIONS outer iterations and stops
\* after the first one in which no rule fires; when it returns before the
\* cap, no inverse pair of permutes and no swapped matmul operand is left
\* in the graph.
C20_OptimizeStops ==
    glast.op = "optimize" =>
        /\ glast.iteration >= 1
        /\ glast.iteration <= MAX_ITERATIONS
        /\ glast.fired >= glast.iteration - 1
        /\ glast.iteration < MAX_ITERATIONS =>
               (glast.fired = glast.iteration - 1 /\ Patterns(Graph) = {})

\* optimize fired rules in two iterations and stopped below the cap
C20_Witness ==
    /\ glast.op = "optimize"
    /\ glast.fired = 2
    /\ glast.iteration = 3

(***************************************************************************)
(* Properties of dataMalloc.                                               *)
(***************************************************************************)
\* a size rounded up to the next multiple of eight bytes
Aligned8(n) == ((n + 7) \div 8) * 8

\* the sum of the aligned byte sizes of the first n tensors of the list
RECURSIVE AlignedSum(_, _)
AlignedSum(G, n) ==
    IF n = 0 THEN 0
    ELSE AlignedSum(G, n - 1) + Aligned8(getBytes(G, G.tensors[n]))

\* the last call was a dataMalloc that returned
MallocReturned == glast.op = "dataMalloc" /\ glast.ret

\* the last call was a dataMalloc that returned, on a graph with tensors
MallocDone == MallocReturned /\ tensors # << >>

\* C16: after dataMalloc the i-th tensor of the list is bound at the
\* committed buffer plus the sum of the aligned byte sizes of the tensors
\* before it, and the buffer is as large as the sum of all aligned sizes.
C16_PrefixSumOffsets ==
    MallocDone =>
        /\ tensors = gpre.tensors
        /\ ptr # NULL
        /\ \A i \in DOMAIN tensors :
               tensorObj[tensors[i]].data =
                   [base |-> ptr, offset |-> AlignedSum(Graph, i - 1)]
        /\ backendBytes = AlignedSum(Graph, Len(tensors))

\* tensors of 100 and 200 bytes are bound at 0 and 104 of a buffer of 304
C16_Witness ==
    /\ MallocDone
    /\ Len(tensors) = 2
    /\ getBytes(Graph, tensors[1]) = 100
    /\ getBytes(Graph, tensors[2]) = 200
    /\ tensorObj[tensors[1]].data = [base |-> ptr, offset |-> 0]
    /\ tensorObj[tensors[2]].data = [base |-> ptr, offset |-> 104]
    /\ backendBytes = 304

\* the positions of the steps of one kind in the last call
Events(kind) == { i \in DOMAIN glast.log : glast.log[i].ev = kind }

\* every tensor was requested before the one commit and bound after it
PhasesOrdered ==
    /\ \A t \in Range(tensors) :
           /\ \E i \in Events("alloc") : glast.log[i].t = t
           /\ \E i \in Events("bind") : glast.log[i].t = t
    /\ \A i \in Events("alloc"), j \in Events("getPtr") : i < j
    /\ \A i \in Events("getPtr"), j \in Events("bind") : i < j
    /\ Cardinality(Events("getPtr")) = 1
    /\ glast.commits = 1

\* C17 as stated: whatever the number of tensors, a dataMalloc call makes
\* its requests, then its one commit, then its bindings.
C17_OneCommitEveryCall == MallocReturned => PhasesOrdered

\* C17: a dataMalloc call on a graph with at least one tensor makes every
\* request before its one commit and every binding after it.
C17_PhasesOrdered == MallocDone => PhasesOrdered

C17_Witness ==
    /\ MallocDone
    /\ Len(tensors) >= 2
    /\ Len(glast.log) = 2 * Len(tensors) + 1
    /\ backendCalls = 1

(***************************************************************************)
(* Properties of shape_infer.                                              *)
(***************************************************************************)
\* every operator of the list comes after the producers of its inputs
TopoOrdered(G) ==
    \A i \in DOMAIN G.ops :
        \A k \in DOMAIN G.op[G.ops[i]].inputs :
            LET producer == G.ten[G.op[G.ops[i]].inputs[k]].source
            IN  producer # NoOperator =>
                    \E j \in 1 .. (i - 1) : G.ops[j] = producer

\* the last call was a shape_infer that completed on a sorted graph
InferDone == glast.op = "shape_infer" /\ glast.ret /\ TopoOrdered(gpre)

\* the tensors that operators of the graph produce
OutputTensors == UNION { Range(opObj[o].outputs) : o \in Range(ops) }

\* C18: after shape_infer on a topologically sorted graph every output
\* tensor has the shape its operator infers from the final shapes of its
\* inputs; the tensors are the same objects as before, nothing but shapes
\* has changed, and the tensors no operator produces keep their shapes.
C18_OutputsInferred ==
    InferDone =>
        /\ ops = gpre.ops /\ tensors = gpre.tensors /\ opObj = gpre.op
        /\ \A o \in Range(ops) :
               /\ inferShape(Graph, o).has
               /\ tensorObj[opObj[o].outputs[1]].dims =
                      inferShape(Graph, o).shape
        /\ \A t \in DOMAIN tensorObj :
               /\ tensorObj[t] =
                      [gpre.ten[t] EXCEPT !.dims = tensorObj[t].dims]
               /\ t \notin OutputTensors =>
                      tensorObj[t].dims = gpre.ten[t].dims

\* a new input shape has gone through a chain of two operators
C18_Witness ==
    /\ InferDone
    /\ \E o1, o2 \in Range(ops) :
           LET t1 == opObj[o1].outputs[1]
               t2 == opObj[o2].outputs[1]
           IN  /\ t1 \in Range(opObj[o2].inputs)
               /\ tensorObj[t1].dims # gpre.ten[t1].dims
               /\ tensorObj[t2].dims # gpre.ten[t2].dims

(***************************************************************************)
(* Properties of checkValid.                                               *)
(***************************************************************************)
\* every tensor of the list is an input or output of a connected operator
EveryTensorUsed ==
    \A t \in Range(tensors) :
        \E o \in Range(ops) :
            t \in Range(opObj[o].inputs) \cup Range(opObj[o].outputs)

\* the tensors of every connected operator are in the list
EveryOperandAdded ==
    \A o \in Range(ops) :
        Range(opObj[o].inputs) \cup Range(opObj[o].outputs)
            \subseteq Range(tensors)

\* no tensor was added to the list twice
AddedOnce == \A i, j \in DOMAIN tensors : tensors[i] = tensors[j] => i = j

\* C19 as stated: checkValid returns true on every graph built through
\* addTensor and addOperatorAndConnect whose tensors are all used by a
\* connected operator and whose operators' tensors were all added.
C19_BuiltGraphValid ==
    glast.op = "checkValid" /\ EveryTensorUsed /\ EveryOperandAdded
        => glast.ret

\* C19: checkValid returns true on every such graph to which no tensor
\* was added twice.
C19_BuiltOnceValid ==
    glast.op = "checkValid" /\ EveryTensorUsed /\ EveryOperandAdded
        /\ AddedOnce
        => glast.ret

\* checkValid has returned true on a graph of two linked operators
C19_Witness ==
    /\ glast.op = "checkValid" /\ glast.ret
    /\ EveryTensorUsed /\ EveryOperandAdded /\ AddedOnce
    /\ \E o1, o2 \in Range(ops) : o1 # o2 /\ o2 \in opObj[o1].succs

(***************************************************************************)
(* Properties of the sorted flag.                                          *)
(***************************************************************************)
\* C23: whenever the sorted flag is true the operator list is in a
\* topological order; addOperatorAndConnect clears the flag; topo_sort
\* called while the flag is true returns true and leaves the graph alone.
C23_FlagMeansSorted ==
    /\ sorted => TopoOrdered(Graph)
    /\ glast.op = "addOperatorAndConnect" => ~sorted
    /\ (glast.op = "topo_sort" /\ gpre.sorted) =>
           glast.ret /\ Graph = gpre

\* the flag is still true after optimize has rewritten a sorted graph and
\* left operators in it
C23_Witness ==
    /\ sorted
    /\ glast.op = "optimize"
    /\ glast.fired >= 1
    /\ gpre.sorted
    /\ ops # << >>
    /\ ops # gpre.ops

(***************************************************************************)
(* The order of topo_sort and the orders of Kahn's algorithm.              *)
(***************************************************************************)
\* the producers of the inputs of operator o
Producers(G, o) ==
    { G.ten[G.op[o].inputs[k]].source : k \in DOMAIN G.op[o].inputs }
        \ {NoOperator}

\* the operators not in the set done whose producers are all in it
ReadyOps(G, done) ==
    { o \in Range(G.ops) \ done : Producers(G, o) \subseteq done }

\* the operator of the set S that stands first in the list
FirstOf(G, S) ==
    CHOOSE o \in S : \A q \in S : Position(G.ops, o) <= Position(G.ops, q)

\* the operators of the set S in the order of the list
RECURSIVE InListOrder(_, _)
InListOrder(G, S) ==
    IF S = {} THEN << >>
    ELSE << FirstOf(G, S) >> \o InListOrder(G, S \ {FirstOf(G, S)})

\* Kahn's algorithm where the ready operator that stands first in the
\* list is taken next
RECURSIVE KahnLowestFirst(_, _)
KahnLowestFirst(G, out) ==
    LET R == ReadyOps(G, Range(out))
    IN  IF R = {} THEN out
        ELSE KahnLowestFirst(G, Append(out, FirstOf(G, R)))

\* Kahn's algorithm with a first-in first-out queue: the operators that
\* are ready at the start enter in list order, and the operators that
\* become ready when one is taken enter behind them in list order
RECURSIVE KahnQueue(_, _, _)
KahnQueue(G, queue, out) ==
    IF queue = << >> THEN out
    ELSE LET next == Append(out, Head(queue))
             waiting == Range(queue) \cup Range(out)
             fresh == ReadyOps(G, Range(next)) \ waiting
         IN  KahnQueue(G, Tail(queue) \o InListOrder(G, fresh), next)

\* Kahn's algorithm where the ready operator that follows the one taken
\* last most closely in the list is taken next, the search going on from
\* the start of the list when none follows; at is the position of the one
\* taken last
RECURSIVE KahnCursor(_, _, _)
KahnCursor(G, at, out) ==
    LET R == ReadyOps(G, Range(out))
        After == { o \in R : Position(G.ops, o) > at }
        o == IF After # {} THEN FirstOf(G, After) ELSE FirstOf(G, R)
    IN  IF R = {} THEN out
        ELSE KahnCursor(G, Position(G.ops, o), Append(out, o))

\* the last call was a topo_sort that sorted an unsorted list
SortDone == glast.op = "topo_sort" /\ glast.ret /\ ~gpre.sorted

\* C24 as stated: the order of topo_sort is the order of a queue-based
\* Kahn sort with ties broken by insertion order, be it with a queue or
\* with the ready operator of lowest position first.
C24_SameAsKahn ==
    SortDone =>
        \/ ops = KahnQueue(gpre, InListOrder(gpre, ReadyOps(gpre, {})),
                           << >>)
        \/ ops = KahnLowestFirst(gpre, << >>)

\* C24: the order of topo_sort is the order of the Kahn sort that takes
\* the ready operator following the last one taken most closely in
\* insertion order, starting over at the head of the list.
C24_SameAsCursorKahn ==
    SortDone => ops = KahnCursor(gpre, 0, << >>)

\* a sort whose order is that of neither other Kahn sort
C24_Witness ==
    /\ SortDone
    /\ ops # gpre.ops
    /\ ops # KahnLowestFirst(gpre, << >>)
    /\ ops # KahnQueue(gpre, InListOrder(gpre, ReadyOps(gpre, {})), << >>)

\* C25: topo_sort on an unsorted-flagged list that is in topological
\* order returns true and leaves the order as it is; sorting the result
\* once more with the flag cleared gives the same order again.
C25_StableOnSorted ==
    /\ (glast.op = "topo_sort" /\ ~gpre.sorted /\ TopoOrdered(gpre)) =>
           glast.ret /\ ops = gpre.ops
    /\ SortDone =>
           LET again == topo_sort([Graph EXCEPT !.sorted = FALSE])
           IN  again.ret /\ again.g.ops = ops

\* a list in topological order with a branch was sorted, and so was a
\* list out of order
C25_Witness ==
    /\ glast.op = "topo_sort"
    /\ ~gpre.sorted
    /\ TopoOrdered(gpre)
    /\ ops = gpre.ops
    /\ \E o \in Range(ops) : Cardinality(opObj[o].succs) >= 2

(***************************************************************************)
(* The scans of optimize.                                                  *)
(***************************************************************************)
\* the number of times operator o occurs in the sequence s
Occurrences(s, o) == Cardinality({ i \in DOMAIN s : s[i] = o })

\* every operator of the list left was visited once
VisitedOnce(left, visits) ==
    \A o \in Range(left) : Occurrences(visits, o) = 1

\* C26: in the first scan of rule 1 and in the first scan of rule 2 of an
\* optimize call on an acyclic graph, every operator that is still in the
\* list at the end of the scan was visited exactly once.
C26_NoSkipNoRevisit ==
    (glast.op = "optimize" /\ ~HasCycle(gpre)) =>
        LET afterPairs == removeRedundantTransposePairs(gpre, 1, FALSE).g
            afterFuse == fuseTransposeIntoMatmul(afterPairs, 1, FALSE).g
        IN  /\ VisitedOnce(afterPairs.ops, pairScanVisits(gpre, 1, << >>))
            /\ VisitedOnce(afterFuse.ops,
                           fuseScanVisits(afterPairs, 1, << >>))

\* C27: when checkValid passes on an acyclic graph before optimize, it
\* passes after optimize.
C27_OptimizeKeepsValid ==
    (glast.op = "optimize" /\ ~HasCycle(gpre) /\ checkValid(gpre)) =>
        checkValid(Graph)

(***************************************************************************)
(* dataMalloc called again.                                                *)
(***************************************************************************)
\* C28: a dataMalloc call on a graph with tensors whose allocator is
\* committed faults, makes no request, no commit and no binding and leaves
\* the allocator as it was, so that the runtime is asked for a buffer once
\* at most; a dataMalloc call on a graph without tensors returns without
\* request or commit and leaves the allocator in planning mode.
C28_MallocOnce ==
    /\ backendCalls <= 1
    /\ (glast.op = "dataMalloc" /\ gpre.tensors # << >>
           /\ ~PlanningMode(pre.ptr)) =>
           /\ ~glast.ret
           /\ glast.log = << >> /\ glast.commits = 0
           /\ tensorObj = gpre.ten
           /\ Fields = pre
    /\ (glast.op = "dataMalloc" /\ gpre.tensors = << >>) =>
           /\ glast.ret
           /\ glast.log = << >> /\ glast.commits = 0
           /\ Fields = pre /\ PlanningMode(ptr)

\* the second call on a graph that sorts, with a tensor added after the
\* first call, has stopped at its first alloc and the new tensor is unbound
C28_Witness ==
    /\ glast.op = "dataMalloc"
    /\ ~PlanningMode(pre.ptr)
    /\ ~glast.ret
    /\ topo_sort(gpre).ret
    /\ \E t \in Range(tensors) : tensorObj[t].data = NoBlob
    /\ \E t \in Range(tensors) : tensorObj[t].data # NoBlob

(***************************************************************************)
(* shape_infer stopped by a failed inference.                              *)
(***************************************************************************)
\* the graph after the setShape events of a log, from the i-th on
RECURSIVE Replay(_, _, _)
Replay(G, log, i) ==
    IF i > Len(log) THEN G
    ELSE IF log[i].ev = "setShape"
         THEN Replay(setShape(G, log[i].t, log[i].dims), log, i + 1)
         ELSE Replay(G, log, i + 1)

\* the operators whose contract the events of a log called, in order
RECURSIVE Visited(_, _)
Visited(log, i) ==
    IF i > Len(log) THEN << >>
    ELSE IF log[i].ev = "inferShape"
         THEN << log[i].t >> \o Visited(log, i + 1)
         ELSE Visited(log, i + 1)

\* C29: an inferShape call of shape_infer that returns no value is the
\* last thing the call does: the call faults, the operators it visited are
\* the list up to the failing one, and the graph is the graph before the
\* call with the shapes set before the failing operator was reached.
C29_FailureStopsWalk ==
    (glast.op = "shape_infer"
       /\ \E i \in Events("inferShape") : glast.log[i].dims = << >>) =>
        LET n == Len(glast.log)
            k == Cardinality(Events("inferShape"))
        IN  /\ ~glast.ret
            /\ glast.log[n].ev = "inferShape" /\ glast.log[n].dims = << >>
            /\ \A i \in 1..(n - 1) : glast.log[i].dims # << >>
            /\ Visited(glast.log, 1) = SubSeq(gpre.ops, 1, k)
            /\ ~inferShape(Graph, gpre.ops[k]).has
            /\ Graph = Replay(gpre, glast.log, 1)

\* the walk failed at an operator, and an operator behind the failing one
\* has an output whose shape does not follow from its input
C29_Witness ==
    /\ glast.op = "shape_infer" /\ ~glast.ret
    /\ Events("inferShape") # {}
    /\ LET k == Cardinality(Events("inferShape"))
       IN  \E j \in (k + 1)..Len(ops) :
               /\ inferShape(Graph, ops[j]).has
               /\ inferShape(Graph, ops[j]).shape #
                      tensorObj[opObj[ops[j]].outputs[1]].dims

(***************************************************************************)
(* The shape rule of MatMul.                                               *)
(***************************************************************************)
\* the shape of an input of the MatMul operator before the call, its last
\* two dimensions swapped when the operator's flag is set
Operand(k) ==
    LET dims == gpre.ten[opObj[1].inputs[k]].dims
        trans == IF k = 1 THEN opObj[1].transA ELSE opObj[1].transB
    IN  IF trans THEN swapLastTwo(dims) ELSE dims

\* the dimensions of a shape before its last two
Batch(shape) == SubSeq(shape, 1, Len(shape) - 2)

\* the inner dimensions of the two operands agree
InnerAgree ==
    Operand(1)[Len(Operand(1))] = Operand(2)[Len(Operand(2)) - 1]

\* C30: inference on a MatMul whose inputs have two or more dimensions
\* fails when the last dimension of A differs from the second-to-last of
\* B (after the swaps); otherwise the output gets the broadcast of the two
\* batch shapes followed by A's second-to-last and B's last dimension.
C30_MatmulShape ==
    (glast.op = "shape_infer" /\ opObj[1].type = "MatMul") =>
        IF ~InnerAgree THEN ~glast.ret
        ELSE /\ glast.ret
             /\ tensorObj[opObj[1].outputs[1]].dims =
                    infer_broadcast(Batch(Operand(1)), Batch(Operand(2)))
                        \o << Operand(1)[Len(Operand(1)) - 1],
                              Operand(2)[Len(Operand(2))] >>

\* what the code computes: the batch dimensions are those of A alone
MatmulBatchOfA ==
    (glast.op = "shape_infer" /\ opObj[1].type = "MatMul") =>
        IF ~InnerAgree THEN ~glast.ret
        ELSE /\ glast.ret
             /\ tensorObj[opObj[1].outputs[1]].dims =
                    Batch(Operand(1))
                        \o << Operand(1)[Len(Operand(1)) - 1],
                              Operand(2)[Len(Operand(2))] >>

(***************************************************************************)
(* Rounding up to the alignment over the whole range of size_t.  The       *)
(* reference values are computed without wrap-around, on five limbs.       *)
(***************************************************************************)
\* a size_t as a number of five limbs
Wide(x) == Append(x, 0)

RECURSIVE WideAddStep(_, _, _)
WideAddStep(x, i, carry) ==
    IF i > 5 THEN x
    ELSE LET cur == x[i] + carry
         IN  WideAddStep([x EXCEPT ![i] = cur % Limb], i + 1, cur \div Limb)

\* x + n without wrap-around, for a size_t x and a small n
WideAdd(x, n) == WideAddStep(Wide(x), 1, n)

RECURSIVE WideLessFrom(_, _, _)
WideLessFrom(x, y, i) ==
    IF i < 1 THEN FALSE
    ELSE IF x[i] # y[i] THEN x[i] < y[i]
    ELSE WideLessFrom(x, y, i - 1)

\* x < y for numbers of five limbs
WideLess(x, y) == WideLessFrom(x, y, 5)

\* r is the smallest multiple of the alignment that is not below size: it
\* is a multiple, it is not below size, and it is below size + alignment
SmallestMultipleFrom(size, r) ==
    /\ r[1] % alignment = 0
    /\ ~WideLess(Wide(r), Wide(size))
    /\ WideLess(Wide(r), WideAdd(size, alignment))

\* C31: getAlignedSize(size) is the smallest multiple of 8 that is not
\* below size, for every size_t value size.
C31_RoundsUp ==
    last.op = "getAlignedSize" => SmallestMultipleFrom(last.size, last.ret)

\* the sizes for which a multiple of the alignment not below them is a
\* size_t
Roundable(size) == WideAdd(size, alignment - 1)[5] = 0

\* what the code computes: the smallest multiple where there is one in
\* size_t, and 0 for the sizes above the largest multiple
RoundsUpOrWraps ==
    last.op = "getAlignedSize" =>
        IF Roundable(last.size)
        THEN SmallestMultipleFrom(last.size, last.ret)
        ELSE last.ret = << 0, 0, 0, 0 >>

=============================================================================
